---- MODULE Spec2Model ----
(***************************************************************************)
(* Role hierarchy / permission inheritance and JWT session lifecycle of    *)
(* the FastAPI RBAC service (app/models/role.py,                           *)
(* app/services/role_hierarchy_service.py, app/services/role_service.py,   *)
(* app/core/security.py, app/services/token_blacklist_service.py,          *)
(* app/services/auth_service.py, app/api/deps.py,                          *)
(* app/core/dependencies.py).                                              *)
(***************************************************************************)
EXTENDS Integers, Sequences, FiniteSets, TLC

(***************************************************************************)
(* Bounds                                                                  *)
(***************************************************************************)
MaxRoles == 4

\* roles of the specification that also assigns permissions
MaxPermRoles == 3

\* None / NULL parent_id
NoParent == -1

\* the test "if parent_id:" of the services fails for None and for 0
Falsy(parent_id) == parent_id = NoParent \/ parent_id = 0

\* ids a caller may pass: every id that can exist plus one that never does
RoleIdInputs == 1..(MaxRoles + 1)

ParentInputs == {NoParent} \cup RoleIdInputs

\* Role.name is a unique column.  The n-th role is created under a fresh
\* name or under the name of the first role.
RoleNameFor(n) ==
    IF n = 1 THEN "admin" ELSE IF n = 2 THEN "manager"
    ELSE IF n = 3 THEN "user" ELSE IF n = 4 THEN "guest"
    ELSE IF n = 5 THEN "auditor" ELSE "operator"

NameInputs(n) == {RoleNameFor(n), RoleNameFor(1)}

\* rows of the permissions table (id -> name); id 3 is never a row
PermissionIds == {1, 2}

PermissionName(p) == IF p = 1 THEN "x:read" ELSE "y:write"

\* issued tokens, over all users
MaxTokens == 2

\* the clock stops here (in ticks)
MaxTime == 6

\* clock ticks per second: datetime.now() is finer than the integer
\* timestamps stored in the iat / exp claims
TicksPerSecond == 2

\* settings.ACCESS_TOKEN_EXPIRE_MINUTES and REFRESH_TOKEN_EXPIRE_MINUTES,
\* both environment-configurable, scaled to seconds of the model clock
ACCESS_TOKEN_EXPIRE_MINUTES == 1

REFRESH_TOKEN_EXPIRE_MINUTES == 2

\* settings.JWT_AUDIENCE left unset
None == "None"

\* values of the JWT_AUDIENCE setting
AudienceSettings == {None, "api"}

\* subjects create_access_token / create_refresh_token are called with:
\* str(user.id) of the seeded user (AuthService.create_tokens)
Subjects == {"1"}

TokenTypes == {"access", "refresh"}

UserStatuses == {"active", "inactive", "suspended"}

\* requests served at the same time, each with its own session (get_db)
Procs == {1, 2}

\* a column an UPDATE does not set
Unchanged == -2

\* a session: the call it serves, the arguments, the rows read when its
\* transaction began, the flush it has pending, and the clock value the
\* call has taken
Txn(op, role_id, parent_id, name, level, writes, snap, jti, at) ==
    [op |-> op, role_id |-> role_id, parent_id |-> parent_id, name |-> name,
     level |-> level, writes |-> writes, snap |-> snap, jti |-> jti, at |-> at]

\* no call in progress
NoTxn == Txn("idle", 0, 0, "", 0, <<>>, <<>>, 0, 0)

\* roles of the specifications with requests in flight
MaxConcRoles == 3

\* tokens in all, issued at login or minted by POST /refresh
MaxSessionTokens == 3

\* users of the specification that deletes roles
MaxUsers == 2

\* roles and highest stored level of the tables that start out damaged
MaxCorruptRoles == 3

MaxCorruptLevel == 1

VARIABLES
    roles,        \* roles table: id -> [name, parent_id, level, permissions]
    nextRoleId,   \* autoincrement primary key of the roles table
    last,         \* the last completed role call and what it returned
    users,        \* users table: id -> [role_id, status]
    now,          \* the wall clock, in ticks
    JWT_AUDIENCE, \* settings.JWT_AUDIENCE
    issued,       \* every token signed so far: jti -> claims
    blacklist,    \* token_blacklist table: jti -> expires_at
    dead,         \* history: jtis seen valid, jtis seen expired or revoked
    lastAuth,     \* the last completed token / authorization call
    txn           \* per request: the database session of a call in progress

roleVars == <<roles, nextRoleId>>

tokenVars == <<now, issued, blacklist>>

roleAll == <<roles, nextRoleId, last, txn>>

authAll == <<users, now, JWT_AUDIENCE, issued, blacklist, dead, lastAuth>>

vars == <<roles, nextRoleId, last, users, now, JWT_AUDIENCE, issued,
          blacklist, dead, lastAuth, txn>>

(***************************************************************************)
(* Role model (app/models/role.py)                                         *)
(***************************************************************************)

\* Role.parent relationship: the row named by parent_id, None if NULL
Parent(rs, r) ==
    IF rs[r].parent_id # NoParent /\ rs[r].parent_id \in DOMAIN rs
    THEN rs[r].parent_id
    ELSE NoParent

\* Role.children relationship: reverse scan on parent_id
Children(rs, r) == {c \in DOMAIN rs : rs[c].parent_id = r}

\* get_all_permissions without the inherited part
get_all_permissions_own_only(rs, r, visited_roles) == rs[r].permissions

\* get_all_permissions taking only the parent's directly assigned
\* permissions instead of recursing
get_all_permissions_one_level(rs, r, visited_roles) ==
    IF rs[r].parent_id # NoParent /\ rs[r].parent_id \in DOMAIN rs
    THEN rs[r].permissions \cup rs[rs[r].parent_id].permissions
    ELSE rs[r].permissions

\* Role.get_all_permissions: own permissions plus the parent's, with the
\* visited guard
RECURSIVE get_all_permissions(_, _, _)
get_all_permissions(rs, r, visited_roles) ==
    IF r \in visited_roles
    THEN {}
    ELSE LET all_permissions == rs[r].permissions
             p == Parent(rs, r)
         IN  IF p # NoParent
             THEN all_permissions
                    \cup get_all_permissions(rs, p, visited_roles \cup {r})
             ELSE all_permissions

\* Role.get_permission_names
get_permission_names(rs, r) ==
    {PermissionName(p) : p \in get_all_permissions(rs, r, {})}

\* Role.has_permission
has_permission(rs, r, permission_name) ==
    permission_name \in get_permission_names(rs, r)

\* the chain walk with "if" in place of "while": one role is examined
ChainWalkOneLevel(rs, target, current, steps) ==
    IF current = NoParent THEN "false"
    ELSE IF current = target THEN "true"
    ELSE "false"

\* The loop "current = start; while current: if current.id == target:
\* return True; current = current.parent; return False".  steps counts the
\* iterations left before the walk has provably entered a parent cycle
\* that does not contain target; the Python loop never returns there.
RECURSIVE ChainWalk(_, _, _, _)
ChainWalk(rs, target, current, steps) ==
    IF current = NoParent THEN "false"
    ELSE IF current = target THEN "true"
    ELSE IF steps = 0 THEN "loops"
    ELSE ChainWalk(rs, target, Parent(rs, current), steps - 1)

\* Role.is_ancestor_of: self is an ancestor of other_role
is_ancestor_of(rs, self, other_role) ==
    ChainWalk(rs, self, Parent(rs, other_role), Cardinality(DOMAIN rs))

\* Role.update_level
update_level(rs, r) ==
    [rs EXCEPT ![r].level =
        IF Parent(rs, r) # NoParent THEN rs[Parent(rs, r)].level + 1 ELSE 0]

(***************************************************************************)
(* RoleHierarchyService (app/services/role_hierarchy_service.py)           *)
(***************************************************************************)

\* _would_create_cycle starting the walk at the parent of potential_parent
_would_create_cycle_from_parent(rs, role, potential_parent) ==
    ChainWalk(rs, role, IF potential_parent \in DOMAIN rs
                        THEN rs[potential_parent].parent_id ELSE NoParent,
              Cardinality(DOMAIN rs))

\* RoleHierarchyService._would_create_cycle: walks up from potential_parent
_would_create_cycle(rs, role, potential_parent) ==
    ChainWalk(rs, role, potential_parent, Cardinality(DOMAIN rs))

\* _update_hierarchy_levels without the loop over role.children
_update_hierarchy_levels_no_cascade(rs, role, depth) == update_level(rs, role)

\* RoleHierarchyService._update_hierarchy_levels: the role, then each child
\* recursively.  depth is the recursion depth left; on a forest it is never
\* exhausted.
RECURSIVE _update_hierarchy_levels(_, _, _)
RECURSIVE UpdateChildren(_, _, _)
_update_hierarchy_levels(rs, role, depth) ==
    IF depth = 0 THEN rs
    ELSE LET updated == update_level(rs, role)
         IN  UpdateChildren(updated, Children(updated, role), depth - 1)

UpdateChildren(rs, cs, depth) ==
    IF cs = {} THEN rs
    ELSE LET child == CHOOSE c \in cs : TRUE
         IN  UpdateChildren(_update_hierarchy_levels(rs, child, depth),
                            cs \ {child}, depth)

\* a call record
Call(op, role_id, parent_id, name, perms, result) ==
    [op |-> op, role_id |-> role_id, parent_id |-> parent_id,
     name |-> name, perms |-> perms, result |-> result]

NoCall == Call("none", 0, 0, "", <<>>, "none")

\* outcome of RoleService.create / create_role_with_parent: the ValueError
\* for a missing parent, the unique-name constraint failing the commit,
\* or the stored role
CreateResult(rs, name, parent_id) ==
    IF ~Falsy(parent_id) /\ parent_id \notin DOMAIN rs THEN "ParentNotFound"
    ELSE IF \E r \in DOMAIN rs : rs[r].name = name THEN "DuplicateName"
    ELSE "ok"

\* the row inserted: by RoleService.create itself, without parent_id, when
\* "if parent_id:" fails, by create_role_with_parent otherwise
NewRole(rs, name, parent_id) ==
    [name |-> name,
     parent_id |-> IF Falsy(parent_id) THEN NoParent ELSE parent_id,
     level |-> IF Falsy(parent_id) THEN 0 ELSE rs[parent_id].level + 1,
     permissions |-> {}]

\* RoleService.create -> RoleHierarchyService.create_role_with_parent
create_role(name, parent_id) ==
    /\ UNCHANGED <<authAll, txn>>
    /\ LET result == CreateResult(roles, name, parent_id)
       IN  /\ last' = Call("create_role", nextRoleId, parent_id, name, <<>>, result)
           /\ IF result = "ok"
              THEN /\ roles' = [r \in DOMAIN roles \cup {nextRoleId} |->
                                  IF r = nextRoleId
                                  THEN NewRole(roles, name, parent_id)
                                  ELSE roles[r]]
                   /\ nextRoleId' = nextRoleId + 1
              ELSE UNCHANGED roleVars

\* whether the recursion of _update_hierarchy_levels over role.children
\* returns.  The children are loaded from the rows as stored: the session
\* does not flush the new parent_id before a lazy load (autoflush=False).
\* depth is the recursion depth left; it is exhausted only when the
\* recursion comes back to a role, and Python then raises RecursionError.
RECURSIVE CascadeReturns(_, _, _)
CascadeReturns(rs, role, depth) ==
    IF depth = 0 THEN FALSE
    ELSE \A child \in Children(rs, role) : CascadeReturns(rs, child, depth - 1)

\* outcome of set_role_parent: the ValueErrors of the validation part,
\* "Hangs" when a "while current" walk never leaves a parent cycle,
\* "RecursionError" when the level cascade never returns, "ok" for a
\* commit
SetParentResult(rs, role_id, parent_id) ==
    IF role_id \notin DOMAIN rs THEN "RoleNotFound"
    ELSE IF Falsy(parent_id)
         THEN IF CascadeReturns(rs, role_id, Cardinality(DOMAIN rs) + 1)
              THEN "ok" ELSE "RecursionError"
    ELSE IF parent_id \notin DOMAIN rs THEN "ParentNotFound"
    ELSE IF _would_create_cycle(rs, role_id, parent_id) = "true" THEN "CycleDetected"
    ELSE IF _would_create_cycle(rs, role_id, parent_id) = "loops" THEN "Hangs"
    ELSE IF is_ancestor_of(rs, role_id, parent_id) = "true" THEN "CycleDetected"
    ELSE IF is_ancestor_of(rs, role_id, parent_id) = "loops" THEN "Hangs"
    ELSE IF ~CascadeReturns(rs, role_id, Cardinality(DOMAIN rs) + 1)
         THEN "RecursionError"
    ELSE "ok"

\* RoleHierarchyService.set_role_parent
set_role_parent(role_id, parent_id) ==
    LET result == SetParentResult(roles, role_id, parent_id)
    IN  /\ last' = Call("set_parent", role_id, parent_id, "", <<>>, result)
        /\ nextRoleId' = nextRoleId
        /\ UNCHANGED <<authAll, txn>>
        /\ IF result = "ok"
           THEN roles' = _update_hierarchy_levels(
                            [roles EXCEPT ![role_id].parent_id = parent_id],
                            role_id, Cardinality(DOMAIN roles) + 1)
           ELSE roles' = roles

\* elements of a list
Range(s) == {s[i] : i \in 1..Len(s)}

\* assign_permissions without the check that every permission id exists
AssignResultRoleOnly(rs, role_id, permission_ids) ==
    IF role_id \notin DOMAIN rs THEN "RoleNotFound" ELSE "ok"

\* RoleService.assign_permissions: full replace, rejected as a whole when
\* the number of permission rows found differs from the length of the list
AssignResult(rs, role_id, permission_ids) ==
    IF role_id \notin DOMAIN rs THEN "RoleNotFound"
    ELSE IF Cardinality(Range(permission_ids) \cap PermissionIds) # Len(permission_ids)
         THEN "PermissionNotFound"
    ELSE "ok"

assign_permissions(role_id, permission_ids) ==
    LET result == AssignResult(roles, role_id, permission_ids)
    IN  /\ last' = Call("assign_permissions", role_id, 0, "", permission_ids, result)
        /\ nextRoleId' = nextRoleId
        /\ UNCHANGED <<authAll, txn>>
        /\ IF result = "ok"
           THEN roles' = [roles EXCEPT ![role_id].permissions = Range(permission_ids)]
           ELSE roles' = roles

(***************************************************************************)
(* Tokens (app/core/security.py)                                           *)
(***************************************************************************)

\* int(now.timestamp()): whole seconds of the clock
Timestamp(t) == t \div TicksPerSecond

\* the instant of an integer timestamp on the clock
\* (datetime.fromtimestamp)
FromTimestamp(ts) == ts * TicksPerSecond

\* _build_claims without extra claims; sig is the signature jwt.encode
\* attaches, type the (absent) "type" claim
_build_claims(subject, token_type, expires_in_minutes, jti) ==
    [sub  |-> subject,
     iss  |-> "fastapi-auth-demo",
     iat  |-> Timestamp(now),
     exp  |-> Timestamp(now) + expires_in_minutes,
     jti  |-> jti,
     typ  |-> token_type,
     type |-> None,
     aud  |-> JWT_AUDIENCE,
     sig  |-> TRUE]

\* create_access_token
create_access_token(subject, jti) ==
    _build_claims(subject, "access", ACCESS_TOKEN_EXPIRE_MINUTES, jti)

\* create_refresh_token
create_refresh_token(subject, jti) ==
    _build_claims(subject, "refresh", REFRESH_TOKEN_EXPIRE_MINUTES, jti)

\* a token string whose signature does not verify
Forged(t) == [t EXCEPT !.sig = FALSE]

\* token strings a caller can present
Presented == {issued[j] : j \in DOMAIN issued}
                \cup {Forged(issued[j]) : j \in DOMAIN issued}

\* no principal
NoUser == 0

\* int(user_id_str) raising ValueError
ValueError == -1

\* int(user_id_str)
IntOf(str) == IF str = "1" THEN 1 ELSE IF str = "2" THEN 2 ELSE ValueError

\* jose jwt.decode(token, key, algorithms=[...]) as verify_token calls it,
\* with no audience argument: signature, exp < now, and an aud claim in
\* the token is rejected because no audience was passed
jwt_decode(t) ==
    IF ~t.sig THEN "bad_signature"
    ELSE IF t.exp < Timestamp(now) THEN "expired"
    ELSE IF t.aud # None THEN "invalid_audience"
    ELSE "ok"

\* what a verification returns: the HTTP status (200 for a returned value),
\* the internal reason and the claims
Outcome(status, reason, sub) == [status |-> status, reason |-> reason, sub |-> sub]

\* verify_token(token, token_type): decode, type claim, integer sub.
\* The blacklist is not consulted.
verify_token(t, token_type) ==
    LET d == jwt_decode(t)
        token_type_claim == IF t.type # None THEN t.type ELSE t.typ
    IN  IF d # "ok" THEN Outcome(401, d, NoUser)
        ELSE IF token_type_claim # token_type THEN Outcome(401, "wrong_type", NoUser)
        ELSE IF IntOf(t.sub) = ValueError THEN Outcome(401, "bad_subject", NoUser)
        ELSE Outcome(200, "ok", IntOf(t.sub))

(***************************************************************************)
(* TokenBlacklistService (app/services/token_blacklist_service.py)         *)
(***************************************************************************)

\* TokenBlacklistService.is_token_blacklisted
is_token_blacklisted(bl, jti) == jti \in DOMAIN bl

\* blacklist_token replacing the row of a jti that is already stored
blacklist_insert_overwrite(bl, jti, expires_at) ==
    [j \in DOMAIN bl \cup {jti} |-> IF j = jti THEN expires_at ELSE bl[j]]

\* rows left by TokenBlacklistService.blacklist_token: the insert, or the
\* rollback when the primary key already exists
blacklist_insert(bl, jti, expires_at) ==
    IF jti \in DOMAIN bl THEN bl
    ELSE [j \in DOMAIN bl \cup {jti} |-> IF j = jti THEN expires_at ELSE bl[j]]

\* cleanup deleting where expires_at <= now
cleanup_rows_not_after(bl, t) == [j \in {k \in DOMAIN bl : ~(bl[k] <= t)} |-> bl[j]]

\* rows left by TokenBlacklistService.cleanup_expired_tokens:
\* delete where expires_at < now
cleanup_rows(bl, t) == [j \in {k \in DOMAIN bl : ~(bl[k] < t)} |-> bl[j]]

\* verify_token_with_blacklist(token, db): imported by app/api/deps.py and
\* app/services/auth_service.py, returns the payload or nothing.
\* Signature, expiry (now > exp fails), audience if configured, revocation
\* lookup by jti; the callers compare typ themselves.
verify_token_with_blacklist(t) ==
    IF ~t.sig THEN "bad_signature"
    ELSE IF now > FromTimestamp(t.exp) THEN "expired"
    ELSE IF JWT_AUDIENCE # None /\ t.aud # JWT_AUDIENCE THEN "invalid_audience"
    ELSE IF is_token_blacklisted(blacklist, t.jti) THEN "revoked"
    ELSE "ok"

(***************************************************************************)
(* AuthService (app/services/auth_service.py)                              *)
(***************************************************************************)

\* AuthService.verify_access_token: verify_token(token)
verify_access_token(t) == verify_token(t, "access")

\* AuthService.verify_refresh_token: verify_token(token), so token_type
\* keeps its default "access"
verify_refresh_token(t) == verify_token(t, "access")

\* AuthService.blacklist_token(db, token): verify_token(token) raises 401
\* for whatever it rejects; what it returns is a TokenData object, and
\* payload.get("jti") on it raises AttributeError (a 500), so
\* TokenBlacklistService.blacklist_token is never reached
auth_blacklist_token(t) ==
    LET payload == verify_token(t, "access")
    IN  IF payload.status # 200 THEN payload
        ELSE Outcome(500, "AttributeError", NoUser)

(***************************************************************************)
(* Request authentication (app/api/deps.py, app/core/dependencies.py)      *)
(***************************************************************************)

\* app/api/deps.py get_current_user
get_current_user(t) ==
    LET payload == verify_token_with_blacklist(t)
    IN  IF payload # "ok" THEN Outcome(401, payload, NoUser)
        ELSE IF t.typ # "access" THEN Outcome(401, "wrong_type", NoUser)
        ELSE IF IntOf(t.sub) = ValueError THEN Outcome(401, "bad_subject", NoUser)
        ELSE IF IntOf(t.sub) \notin DOMAIN users THEN Outcome(401, "no_user", NoUser)
        ELSE IF users[IntOf(t.sub)].status # "active"
             THEN Outcome(403, "not_active", NoUser)
        ELSE Outcome(200, "ok", IntOf(t.sub))

\* check_permissions looking only at the permissions assigned to the
\* user's role directly
check_permissions_own_role_only(required_permissions, t) ==
    LET current_user == get_current_user(t)
    IN  IF current_user.status # 200 THEN current_user
        ELSE IF required_permissions \subseteq
                  {PermissionName(p) : p \in roles[users[current_user.sub].role_id].permissions}
             THEN current_user
        ELSE Outcome(403, "forbidden", NoUser)

\* app/api/deps.py check_permissions(required_permissions): every required
\* permission among the role's own and inherited permission names
check_permissions(required_permissions, t) ==
    LET current_user == get_current_user(t)
    IN  IF current_user.status # 200 THEN current_user
        ELSE IF required_permissions
                  \subseteq get_permission_names(roles, users[current_user.sub].role_id)
             THEN current_user
        ELSE Outcome(403, "forbidden", NoUser)

\* app/api/deps.py check_any_permission(required_permissions)
check_any_permission(required_permissions, t) ==
    LET current_user == get_current_user(t)
    IN  IF current_user.status # 200 THEN current_user
        ELSE IF required_permissions
                  \cap get_permission_names(roles, users[current_user.sub].role_id) # {}
             THEN current_user
        ELSE Outcome(403, "forbidden", NoUser)

\* PyJWT jwt.decode(token, key, algorithms=[...]) as
\* app/core/dependencies.py calls it: signature, exp <= now, and an aud
\* claim is rejected because no audience was passed
pyjwt_decode(t) ==
    IF ~t.sig THEN "bad_signature"
    ELSE IF FromTimestamp(t.exp) <= now THEN "expired"
    ELSE IF t.aud # None THEN "invalid_audience"
    ELSE "ok"

\* app/core/dependencies.py get_current_user: decode and user lookup; the
\* test "not user.status" is false for every status string
core_get_current_user(t) ==
    LET d == pyjwt_decode(t)
    IN  IF d # "ok" THEN Outcome(401, d, NoUser)
        ELSE IF IntOf(t.sub) \notin DOMAIN users THEN Outcome(401, "no_user", NoUser)
        ELSE Outcome(200, "ok", IntOf(t.sub))

\* app/core/dependencies.py require_permissions(required_permissions):
\* the role's directly assigned permissions only
require_permissions(required_permissions, t) ==
    LET current_user == core_get_current_user(t)
    IN  IF current_user.status # 200 THEN current_user
        ELSE IF required_permissions \subseteq
                  {PermissionName(p) : p \in roles[users[current_user.sub].role_id].permissions}
             THEN current_user
        ELSE Outcome(403, "forbidden", NoUser)

(***************************************************************************)
(* Users (app/services/user_service.py)                                    *)
(***************************************************************************)

\* rows after UserService.update_status
update_status_rows(us, user_id, status) ==
    IF user_id \in DOMAIN us THEN [us EXCEPT ![user_id].status = status] ELSE us

\* rows after UserService.delete
delete_user_rows(us, user_id) == [u \in DOMAIN us \ {user_id} |-> us[u]]

(***************************************************************************)
(* Token and authorization steps                                           *)
(***************************************************************************)

RequiredPermissionSets == SUBSET {PermissionName(p) : p \in PermissionIds}

\* the call that has just completed, while the state it ran in lasts: the
\* token presented (its jti, whether its signature was forged), the type
\* the call expects, the required permissions, the result, and whether
\* earlier verifications of the token had succeeded before any revocation /
\* had found it expired or revoked
AuthCall(op, t, expected, required, out) ==
    [op |-> op, jti |-> t.jti, forged |-> ~t.sig, expected |-> expected,
     required |-> required,
     status |-> out.status, reason |-> out.reason, sub |-> out.sub,
     valid_before |-> t.jti \in dead.valid,
     gone_before |-> t.jti \in dead.gone]

NoAuthCall ==
    [op |-> "none", jti |-> 0, forged |-> FALSE, expected |-> None,
     required |-> {}, status |-> 0, reason |-> "none", sub |-> NoUser,
     valid_before |-> FALSE, gone_before |-> FALSE]

\* history kept for the token lifecycle: the jtis that have verified
\* successfully while not in the blacklist, and the jtis a verification has
\* found expired or revoked
Observe(t, out) ==
    [valid |-> IF out.status = 200 /\ ~is_token_blacklisted(blacklist, t.jti)
               THEN dead.valid \cup {t.jti} ELSE dead.valid,
     gone  |-> IF out.reason \in {"expired", "revoked"}
               THEN dead.gone \cup {t.jti} ELSE dead.gone]

\* a verification step: records the outcome, changes no table
Verification(op, t, expected, required, out) ==
    /\ lastAuth' = AuthCall(op, t, expected, required, out)
    /\ dead' = Observe(t, out)
    /\ UNCHANGED <<roleAll, users, JWT_AUDIENCE, tokenVars>>

\* an authorization step: records the outcome, changes no table
Authorization(op, t, required, out) ==
    /\ lastAuth' = AuthCall(op, t, "access", required, out)
    /\ UNCHANGED <<roleAll, users, JWT_AUDIENCE, tokenVars, dead>>

\* create_access_token / create_refresh_token with a fresh uuid4 jti
IssueToken(subject, token_type) ==
    /\ Cardinality(DOMAIN issued) < MaxTokens
    /\ LET jti == Cardinality(DOMAIN issued) + 1
           t == IF token_type = "access"
                THEN create_access_token(subject, jti)
                ELSE create_refresh_token(subject, jti)
       IN  /\ issued' = [j \in DOMAIN issued \cup {jti} |->
                            IF j = jti THEN t ELSE issued[j]]
           /\ lastAuth' = AuthCall("issue", t, token_type, {},
                                   Outcome(200, "issued", NoUser))
    /\ UNCHANGED <<roleAll, users, JWT_AUDIENCE, now, blacklist, dead>>

\* time passes
Tick ==
    /\ now < MaxTime
    /\ now' = now + 1
    /\ lastAuth' = NoAuthCall
    /\ UNCHANGED <<roleAll, users, JWT_AUDIENCE, issued, blacklist, dead>>

\* TokenBlacklistService.blacklist_token(db, jti, expires_at) for the jti
\* and exp of an issued token
Revoke(jti) ==
    /\ jti \in DOMAIN issued
    /\ blacklist' = blacklist_insert(blacklist, jti, FromTimestamp(issued[jti].exp))
    /\ lastAuth' = NoAuthCall
    /\ UNCHANGED <<roleAll, users, JWT_AUDIENCE, now, issued, dead>>

\* TokenBlacklistService.cleanup_expired_tokens
Cleanup ==
    /\ blacklist' = cleanup_rows(blacklist, now)
    /\ lastAuth' = NoAuthCall
    /\ UNCHANGED <<roleAll, users, JWT_AUDIENCE, now, issued, dead>>

\* AuthService.blacklist_token(db, token)
AuthBlacklistToken(t) ==
    /\ lastAuth' = AuthCall("auth_blacklist_token", t, "access", {},
                            auth_blacklist_token(t))
    /\ UNCHANGED <<roleAll, users, JWT_AUDIENCE, tokenVars, dead>>

VerifyToken(t, token_type) ==
    Verification("verify_token", t, token_type, {}, verify_token(t, token_type))

VerifyRefreshToken(t) ==
    Verification("verify_refresh_token", t, "refresh", {}, verify_refresh_token(t))

GetCurrentUser(t) ==
    Verification("get_current_user", t, "access", {}, get_current_user(t))

CoreGetCurrentUser(t) ==
    Verification("core_get_current_user", t, "access", {}, core_get_current_user(t))

CheckPermissions(required, t) ==
    Authorization("check_permissions", t, required, check_permissions(required, t))

CheckAnyPermission(required, t) ==
    Authorization("check_any_permission", t, required, check_any_permission(required, t))

RequirePermissions(required, t) ==
    Authorization("require_permissions", t, required, require_permissions(required, t))

\* UserService.update_status
UpdateStatus(user_id, status) ==
    /\ user_id \in DOMAIN users
    /\ users' = update_status_rows(users, user_id, status)
    /\ lastAuth' = NoAuthCall
    /\ UNCHANGED <<roleAll, JWT_AUDIENCE, tokenVars, dead>>

\* UserService.delete
DeleteUser(user_id) ==
    /\ user_id \in DOMAIN users
    /\ users' = delete_user_rows(users, user_id)
    /\ lastAuth' = NoAuthCall
    /\ UNCHANGED <<roleAll, JWT_AUDIENCE, tokenVars, dead>>

(***************************************************************************)
(* Specifications                                                          *)
(***************************************************************************)

EmptyTable == [x \in {} |-> 0]

\* the empty database
Init ==
    /\ roles = EmptyTable
    /\ nextRoleId = 1
    /\ last = NoCall
    /\ users = EmptyTable
    /\ now = 0
    /\ JWT_AUDIENCE = None
    /\ issued = EmptyTable
    /\ blacklist = EmptyTable
    /\ dead = [valid |-> {}, gone |-> {}]
    /\ lastAuth = NoAuthCall
    /\ txn = [p \in Procs |-> NoTxn]

\* role graph operations
Next ==
    \/ /\ nextRoleId <= MaxRoles
       /\ \E name \in NameInputs(nextRoleId), parent_id \in ParentInputs :
             create_role(name, parent_id)
    \/ \E role_id \in RoleIdInputs, parent_id \in ParentInputs :
          set_role_parent(role_id, parent_id)

Spec == Init /\ [][Next]_vars

\* permission_ids lists the permission specification assigns: every set of
\* existing permissions, and one list naming a missing permission
AssignedLists == {<<>>, <<1>>, <<2>>, <<1, 2>>, <<1, 3>>}

\* role graph operations and permission assignment, on existing roles
NextPerm ==
    \/ /\ nextRoleId <= MaxPermRoles
       /\ \E parent_id \in {NoParent} \cup DOMAIN roles :
             create_role(RoleNameFor(nextRoleId), parent_id)
    \/ \E role_id \in DOMAIN roles, parent_id \in {NoParent} \cup DOMAIN roles :
          set_role_parent(role_id, parent_id)
    \/ \E role_id \in DOMAIN roles, permission_ids \in AssignedLists :
          assign_permissions(role_id, permission_ids)

SpecPerm == Init /\ [][NextPerm]_vars

\* the database after create_role("admin"), create_role("user", 1),
\* assign_permissions(1, <<1>>) and one user with the role "user"
SeededRoles ==
    [r \in {1, 2} |->
        IF r = 1
        THEN [name |-> "admin", parent_id |-> NoParent, level |-> 0, permissions |-> {1}]
        ELSE [name |-> "user", parent_id |-> 1, level |-> 1, permissions |-> {}]]

SeededUsers == [u \in {1} |-> [role_id |-> 2, status |-> "active"]]

InitAuth ==
    /\ roles = SeededRoles
    /\ nextRoleId = 3
    /\ last = NoCall
    /\ users = SeededUsers
    /\ now = 0
    /\ JWT_AUDIENCE \in AudienceSettings
    /\ issued = EmptyTable
    /\ blacklist = EmptyTable
    /\ dead = [valid |-> {}, gone |-> {}]
    /\ lastAuth = NoAuthCall
    /\ txn = [p \in Procs |-> NoTxn]

\* token lifecycle
NextToken ==
    \/ \E subject \in Subjects, token_type \in TokenTypes : IssueToken(subject, token_type)
    \/ Tick
    \/ \E jti \in DOMAIN issued : Revoke(jti)
    \/ Cleanup
    \/ \E t \in Presented : AuthBlacklistToken(t)
    \/ \E t \in Presented, token_type \in TokenTypes : VerifyToken(t, token_type)
    \/ \E t \in Presented : VerifyRefreshToken(t)
    \/ \E t \in Presented : GetCurrentUser(t)
    \/ \E t \in Presented : CoreGetCurrentUser(t)

SpecToken == InitAuth /\ [][NextToken]_vars

\* authorization of requests
NextAuth ==
    \/ \E subject \in Subjects, token_type \in TokenTypes : IssueToken(subject, token_type)
    \/ Tick
    \/ \E status \in UserStatuses : UpdateStatus(1, status)
    \/ DeleteUser(1)
    \/ \E t \in Presented, required \in RequiredPermissionSets : CheckPermissions(required, t)
    \/ \E t \in Presented, required \in RequiredPermissionSets : CheckAnyPermission(required, t)
    \/ \E t \in Presented, required \in RequiredPermissionSets : RequirePermissions(required, t)

SpecAuth == InitAuth /\ [][NextAuth]_vars

(***************************************************************************)
(* Properties of the role graph                                            *)
(***************************************************************************)

\* the role k parent links above r, NoParent past the root
RECURSIVE ParentPow(_, _, _)
ParentPow(rs, r, k) ==
    IF r = NoParent \/ r \notin DOMAIN rs THEN NoParent
    ELSE IF k = 0 THEN r
    ELSE ParentPow(rs, rs[r].parent_id, k - 1)

\* every role reachable from r by one or more parent links
Ancestors(rs, r) ==
    {ParentPow(rs, r, k) : k \in 1..Cardinality(DOMAIN rs)} \ {NoParent}

\* r or one of the roles below it
DescendantsOrSelf(rs, r) == {d \in DOMAIN rs : d = r \/ r \in Ancestors(rs, d)}

\* C2: after any sequence of create_role and set_parent calls from the
\* empty graph, no role is reachable from itself by following parent_id.
C2_NoCycle == \A r \in DOMAIN roles : r \notin Ancestors(roles, r)

\* a set_parent was accepted and left a chain of three roles
C2_Witness ==
    /\ last.op = "set_parent" /\ last.result = "ok"
    /\ \E r \in DOMAIN roles :
          /\ roles[r].parent_id = last.role_id
          /\ roles[last.role_id].parent_id # NoParent

\* C3: set_parent(role_id, new_parent_id) on an existing role is rejected
\* with CycleDetected whenever new_parent_id is role_id itself or any of
\* its descendants in the graph the call starts from.
C3_DescendantRejected ==
    [][ (/\ last'.op = "set_parent"
         /\ last'.role_id \in DOMAIN roles
         /\ last'.parent_id \in DescendantsOrSelf(roles, last'.role_id))
        => (last'.result = "CycleDetected" /\ roles' = roles) ]_vars

\* a set_parent naming a grandchild of the role as its new parent was
\* rejected
C3_Witness ==
    /\ last.op = "set_parent" /\ last.result = "CycleDetected"
    /\ last.parent_id \in DOMAIN roles
    /\ ParentPow(roles, last.parent_id, 2) = last.role_id
    /\ last.parent_id # last.role_id

\* C5: after every completed create_role or set_parent, every role has
\* level 0 if it has no parent and the level of its parent plus one
\* otherwise.
C5_LevelsConsistent ==
    \A r \in DOMAIN roles :
        roles[r].level = IF roles[r].parent_id = NoParent
                         THEN 0
                         ELSE roles[roles[r].parent_id].level + 1

\* an accepted set_parent moved a role with a child and a grandchild under
\* a new parent, and the grandchild now sits at level 3
C5_Witness ==
    /\ last.op = "set_parent" /\ last.result = "ok"
    /\ last.parent_id # NoParent
    /\ \E g \in DOMAIN roles :
          /\ ParentPow(roles, g, 2) = last.role_id
          /\ roles[g].level = 3

\* C6: the effective permissions of a role are exactly the union of the
\* directly assigned permissions of the role and of every ancestor on its
\* parent chain.
C6_EffectiveIsUnion ==
    \A r \in DOMAIN roles :
        get_all_permissions(roles, r, {}) =
            UNION {roles[a].permissions : a \in {r} \cup Ancestors(roles, r)}

\* the example: root A with x:read, B child of A with y:write, and B's
\* effective permission names are both
C6_Witness ==
    \E a \in DOMAIN roles, b \in DOMAIN roles :
        /\ roles[a].parent_id = NoParent /\ roles[b].parent_id = a
        /\ roles[a].permissions = {1} /\ roles[b].permissions = {2}
        /\ get_permission_names(roles, b) = {"x:read", "y:write"}

\* C7: for every direct parent-to-child edge the child's effective
\* permissions include the parent's effective permissions.
C7_ChildSuperset ==
    \A c \in DOMAIN roles :
        roles[c].parent_id # NoParent =>
            get_all_permissions(roles, roles[c].parent_id, {})
                \subseteq get_all_permissions(roles, c, {})

\* a permission was assigned to the root of a chain of three roles whose
\* other two roles hold nothing directly, and reached the lowest role
C7_Witness ==
    /\ last.op = "assign_permissions" /\ last.result = "ok"
    /\ \E g \in DOMAIN roles :
          /\ ParentPow(roles, g, 2) = last.role_id
          /\ roles[g].permissions = {}
          /\ roles[roles[g].parent_id].permissions = {}
          /\ get_all_permissions(roles, g, {}) = {1, 2}

(***************************************************************************)
(* Properties of tokens and authorization                                  *)
(***************************************************************************)

\* calls that verify a presented token
VerifyOps ==
    {"verify_token", "verify_refresh_token", "get_current_user",
     "core_get_current_user"}

\* calls that authorize a request
AuthorizeOps == {"check_permissions", "check_any_permission", "require_permissions"}

\* reasons for which the token itself is rejected
TokenFailureReasons ==
    {"bad_signature", "expired", "invalid_audience", "wrong_type", "revoked",
     "bad_subject"}

\* the status of the principal a token names, "missing" if there is none
PrincipalOf(t) ==
    IF IntOf(t.sub) \in DOMAIN users THEN users[IntOf(t.sub)].status ELSE "missing"

\* C1: once the jti of a token that had verified successfully is in the
\* revocation store, every verification of that token, on any path, fails
\* with Unauthenticated.
C1_RevokedNeverVerifies ==
    (/\ lastAuth.op \in VerifyOps
     /\ ~lastAuth.forged
     /\ lastAuth.valid_before
     /\ is_token_blacklisted(blacklist, lastAuth.jti))
    => lastAuth.status = 401

\* C4: a genuine token whose typ differs from the type the call expects
\* fails verification.
C4_TypesNotInterchangeable ==
    (/\ lastAuth.op \in VerifyOps
     /\ ~lastAuth.forged
     /\ issued[lastAuth.jti].typ # lastAuth.expected)
    => lastAuth.status # 200

\* C8: no verification of a token succeeds after a verification of the
\* same token has failed because the token had expired or was revoked.
C8_NoReturnToValid ==
    (lastAuth.op \in VerifyOps /\ lastAuth.gone_before) => lastAuth.status # 200

\* C9: a token verified with its own type within the second it was issued
\* in is accepted and yields the subject it was issued for.
C9_IssueVerifyRoundTrip ==
    (/\ lastAuth.op = "verify_token"
     /\ ~lastAuth.forged
     /\ Timestamp(now) = issued[lastAuth.jti].iat
     /\ ~is_token_blacklisted(blacklist, lastAuth.jti)
     /\ lastAuth.expected = issued[lastAuth.jti].typ)
    => (/\ lastAuth.status = 200
        /\ lastAuth.sub = IntOf(issued[lastAuth.jti].sub))

\* C10: an authorization whose token is rejected, or whose principal is
\* missing or not active, fails with 401; 403 is returned only to an
\* active principal that lacks the required permissions.
C10_UnauthenticatedNotForbidden ==
    lastAuth.op \in AuthorizeOps =>
        LET principal == PrincipalOf(issued[lastAuth.jti])
        IN  /\ (lastAuth.reason \in TokenFailureReasons \/ principal # "active")
                  => lastAuth.status = 401
            /\ lastAuth.status = 403
                  => (lastAuth.reason = "forbidden" /\ principal = "active")

\* the effective permission names of the role of the principal a token
\* names
EffectiveOf(t) == get_permission_names(roles, users[IntOf(t.sub)].role_id)

\* C11: for an authenticated active principal, authorization in mode ALL
\* (check_permissions, require_permissions) succeeds iff every required
\* permission is in the effective set of the principal's role, in mode ANY
\* (check_any_permission) iff at least one is; otherwise it answers 403.
C11_AllAnyOverEffective ==
    (/\ lastAuth.op \in AuthorizeOps
     /\ lastAuth.reason \in {"ok", "forbidden"}
     /\ issued[lastAuth.jti].typ = "access"
     /\ PrincipalOf(issued[lastAuth.jti]) = "active")
    => LET effective == EffectiveOf(issued[lastAuth.jti])
           granted == IF lastAuth.op = "check_any_permission"
                      THEN lastAuth.required \cap effective # {}
                      ELSE lastAuth.required \subseteq effective
       IN  /\ granted <=> lastAuth.status = 200
           /\ ~granted <=> lastAuth.status = 403

\* the "detail" of the HTTPException a call raises for an internal reason:
\* verify_token raises one credentials_exception for everything;
\* app/api/deps.py get_current_user raises credentials_exception, "Invalid
\* token type" or the 403 "User account is not active";
\* app/core/dependencies.py get_current_user raises "Could not validate
\* credentials" for a PyJWTError and "User not found"
Detail(op, reason) ==
    IF reason = "forbidden"
    THEN IF op = "require_permissions" THEN "Missing permissions"
         ELSE "Not enough permissions"
    ELSE IF reason = "AttributeError" THEN "Internal Server Error"
    ELSE IF op \in {"get_current_user", "check_permissions", "check_any_permission"}
    THEN IF reason = "wrong_type" THEN "Invalid token type"
         ELSE IF reason = "not_active" THEN "User account is not active"
         ELSE "Could not validate credentials"
    ELSE IF op \in {"core_get_current_user", "require_permissions"}
    THEN IF reason = "no_user" THEN "User not found"
         ELSE "Could not validate credentials"
    ELSE "Could not validate credentials"

\* what the caller sees of a rejected call: status code and detail
Response(op, status, reason) == [status |-> status, detail |-> Detail(op, reason)]

\* C12: a call that rejects a token, for whatever reason, answers exactly
\* what the same call answers to a token whose signature does not verify.
C12_FailuresIndistinguishable ==
    (/\ lastAuth.op \in VerifyOps \cup AuthorizeOps
     /\ lastAuth.reason \in TokenFailureReasons)
    => Response(lastAuth.op, lastAuth.status, lastAuth.reason)
          = Response(lastAuth.op, 401, "bad_signature")

(***************************************************************************)
(* Requests in flight.  Every request has its own session                  *)
(* (app/database.py get_db, autoflush=False): a call reads the committed   *)
(* rows, changes its own copies, and db.commit() flushes the UPDATE /      *)
(* INSERT statements and commits them together.  No call takes a lock.     *)
(***************************************************************************)

\* the UPDATEs a flush emits: for every row the session changed, the
\* columns whose value differs from the value loaded
Flush(before, after) ==
    [r \in {x \in DOMAIN before : \/ before[x].parent_id # after[x].parent_id
                                  \/ before[x].level # after[x].level} |->
        [parent_id |-> IF before[r].parent_id # after[r].parent_id
                       THEN after[r].parent_id ELSE Unchanged,
         level     |-> IF before[r].level # after[r].level
                       THEN after[r].level ELSE Unchanged]]

\* a commit that makes only the UPDATE of parent_id visible
ApplyWritesParentOnly(rs, writes) ==
    [r \in DOMAIN rs |->
        IF r \in DOMAIN writes /\ writes[r].parent_id # Unchanged
        THEN [rs[r] EXCEPT !.parent_id = writes[r].parent_id]
        ELSE rs[r]]

\* the roles table after db.commit() of a session with these UPDATEs
ApplyWrites(rs, writes) ==
    [r \in DOMAIN rs |->
        IF r \in DOMAIN writes
        THEN [rs[r] EXCEPT
                !.parent_id = IF writes[r].parent_id = Unchanged
                              THEN @ ELSE writes[r].parent_id,
                !.level = IF writes[r].level = Unchanged
                          THEN @ ELSE writes[r].level]
        ELSE rs[r]]

\* create_role_with_parent calls in flight
PendingCreates == Cardinality({p \in Procs : txn[p].op = "create_role"})

\* create_role_with_parent up to db.add(role): the parent is looked up and
\* the level computed from the rows committed now
BeginCreate(p, name, parent_id) ==
    /\ txn[p] = NoTxn
    /\ UNCHANGED <<authAll, roleVars>>
    /\ IF ~Falsy(parent_id) /\ parent_id \notin DOMAIN roles
       THEN /\ last' = Call("create_role", nextRoleId, parent_id, name, <<>>,
                            "ParentNotFound")
            /\ txn' = txn
       ELSE /\ txn' = [txn EXCEPT ![p] =
                         Txn("create_role", 0, parent_id, name,
                             NewRole(roles, name, parent_id).level,
                             <<>>, <<>>, 0, 0)]
            /\ last' = last

\* create_role_with_parent from db.commit(): the INSERT, which the unique
\* index on name can reject
CommitCreate(p) ==
    /\ txn[p].op = "create_role"
    /\ UNCHANGED authAll
    /\ txn' = [txn EXCEPT ![p] = NoTxn]
    /\ LET result == CreateResult(roles, txn[p].name, txn[p].parent_id)
       IN  /\ last' = Call("create_role", nextRoleId, txn[p].parent_id,
                           txn[p].name, <<>>, result)
           /\ IF result = "ok"
              THEN /\ roles' = [r \in DOMAIN roles \cup {nextRoleId} |->
                                  IF r = nextRoleId
                                  THEN [NewRole(roles, txn[p].name, txn[p].parent_id)
                                          EXCEPT !.level = txn[p].level]
                                  ELSE roles[r]]
                   /\ nextRoleId' = nextRoleId + 1
              ELSE UNCHANGED roleVars

\* set_role_parent up to db.commit(): validation, role.parent_id =
\* parent_id and _update_hierarchy_levels, all on the rows committed now
BeginSetParent(p, role_id, parent_id) ==
    /\ txn[p] = NoTxn
    /\ UNCHANGED <<authAll, roleVars>>
    /\ LET result == SetParentResult(roles, role_id, parent_id)
       IN  IF result = "ok"
           THEN /\ txn' = [txn EXCEPT ![p] =
                             Txn("set_parent", role_id, parent_id, "", 0,
                                 Flush(roles,
                                       _update_hierarchy_levels(
                                          [roles EXCEPT ![role_id].parent_id = parent_id],
                                          role_id, Cardinality(DOMAIN roles) + 1)),
                                 <<>>, 0, 0)]
                /\ last' = last
           ELSE /\ last' = Call("set_parent", role_id, parent_id, "", <<>>, result)
                /\ txn' = txn

\* set_role_parent from db.commit()
CommitSetParent(p) ==
    /\ txn[p].op = "set_parent"
    /\ UNCHANGED authAll
    /\ roles' = ApplyWrites(roles, txn[p].writes)
    /\ nextRoleId' = nextRoleId
    /\ last' = Call("set_parent", txn[p].role_id, txn[p].parent_id, "", <<>>, "ok")
    /\ txn' = [txn EXCEPT ![p] = NoTxn]

\* a read-only request (effective permissions, roles granting a
\* permission, authorization): its session sees the rows committed when
\* its transaction began
Read(p) ==
    /\ txn[p] = NoTxn
    /\ txn' = [txn EXCEPT ![p] = Txn("read", 0, 0, "", 0, <<>>, roles, 0, 0)]
    /\ UNCHANGED <<authAll, roleVars, last>>

\* the read-only request returns and get_db closes the session
EndRead(p) ==
    /\ txn[p].op = "read"
    /\ txn' = [txn EXCEPT ![p] = NoTxn]
    /\ UNCHANGED <<authAll, roleVars, last>>

\* TokenBlacklistService.blacklist_token up to db.commit()
RevokeBegin(p, jti) ==
    /\ txn[p] = NoTxn
    /\ jti \in DOMAIN issued
    /\ txn' = [txn EXCEPT ![p] = Txn("revoke", 0, 0, "", 0, <<>>, <<>>, jti, 0)]
    /\ UNCHANGED <<authAll, roleVars, last>>

\* TokenBlacklistService.blacklist_token from db.commit(): the INSERT
RevokeCommit(p) ==
    /\ txn[p].op = "revoke"
    /\ blacklist' = blacklist_insert(blacklist, txn[p].jti,
                                     FromTimestamp(issued[txn[p].jti].exp))
    /\ txn' = [txn EXCEPT ![p].op = "revoked"]
    /\ UNCHANGED <<roleVars, last, users, now, JWT_AUDIENCE, issued, dead, lastAuth>>

\* cleanup_expired_tokens: now = datetime.now(timezone.utc)
CleanupStart(p) ==
    /\ txn[p] = NoTxn
    /\ txn' = [txn EXCEPT ![p] = Txn("cleanup", 0, 0, "", 0, <<>>, <<>>, 0, now)]
    /\ UNCHANGED <<authAll, roleVars, last>>

\* cleanup_expired_tokens: the DELETE with the clock value taken, and the
\* commit
CleanupDelete(p) ==
    /\ txn[p].op = "cleanup"
    /\ blacklist' = cleanup_rows(blacklist, txn[p].at)
    /\ txn' = [txn EXCEPT ![p].op = "cleaned"]
    /\ UNCHANGED <<roleVars, last, users, now, JWT_AUDIENCE, issued, dead, lastAuth>>

\* the response of a finished revoke or cleanup has been delivered
Finish(p) ==
    /\ txn[p].op \in {"revoked", "cleaned"}
    /\ txn' = [txn EXCEPT ![p] = NoTxn]
    /\ UNCHANGED <<authAll, roleVars, last>>

\* no role is its own ancestor
NoCycle(rs) == \A r \in DOMAIN rs : r \notin Ancestors(rs, r)

\* every role is at level 0 without a parent, one below its parent otherwise
LevelsConsistent(rs) ==
    \A r \in DOMAIN rs :
        rs[r].level = IF rs[r].parent_id = NoParent THEN 0
                      ELSE rs[rs[r].parent_id].level + 1

\* structural mutations by two requests at a time.  New requests are
\* followed as long as the committed graph is a forest with consistent
\* levels: on a cyclic graph the parent walks of the services need not
\* return, and the levels a cascade writes grow without bound.
NextConc ==
    \/ /\ nextRoleId + PendingCreates <= MaxConcRoles
       /\ NoCycle(roles) /\ LevelsConsistent(roles)
       /\ \E p \in Procs, name \in NameInputs(nextRoleId + PendingCreates),
             parent_id \in {NoParent} \cup DOMAIN roles :
             BeginCreate(p, name, parent_id)
    \/ /\ NoCycle(roles) /\ LevelsConsistent(roles)
       /\ \E p \in Procs, role_id \in DOMAIN roles,
             parent_id \in {NoParent} \cup DOMAIN roles :
             BeginSetParent(p, role_id, parent_id)
    \/ \E p \in Procs : CommitCreate(p)
    \/ \E p \in Procs : CommitSetParent(p)

SpecConc == Init /\ [][NextConc]_vars

\* one request mutating the graph while another reads it
NextRead ==
    \/ /\ nextRoleId + PendingCreates <= MaxConcRoles
       /\ \E parent_id \in {NoParent} \cup DOMAIN roles :
             BeginCreate(1, RoleNameFor(nextRoleId), parent_id)
    \/ \E role_id \in DOMAIN roles, parent_id \in {NoParent} \cup DOMAIN roles :
          BeginSetParent(1, role_id, parent_id)
    \/ CommitCreate(1)
    \/ CommitSetParent(1)
    \/ Read(2)
    \/ EndRead(2)

SpecRead == Init /\ [][NextRead]_vars

\* revocations racing cleanups
NextRace ==
    \/ \E subject \in Subjects, token_type \in TokenTypes : IssueToken(subject, token_type)
    \/ Tick
    \/ \E p \in Procs, jti \in DOMAIN issued : RevokeBegin(p, jti)
    \/ \E p \in Procs : RevokeCommit(p)
    \/ \E p \in Procs : CleanupStart(p)
    \/ \E p \in Procs : CleanupDelete(p)
    \/ \E p \in Procs : Finish(p)

SpecRace == InitAuth /\ [][NextRace]_vars

(***************************************************************************)
(* Properties of requests in flight                                        *)
(***************************************************************************)

\* C13: once the concurrent create_role and set_parent calls have all
\* completed, the graph is one that a serial order of the calls produces:
\* it has no cycle and no inconsistent level.
C13_SerializedMutations ==
    (\A p \in Procs : txn[p] = NoTxn)
    => (NoCycle(roles) /\ LevelsConsistent(roles))

C15_RevokeSurvivesCleanup ==
    \A p \in Procs, q \in Procs :
        (/\ txn[p].op = "revoked"
         /\ txn[q].op = "cleaned"
         /\ ~(now > FromTimestamp(issued[txn[p].jti].exp)))
        => is_token_blacklisted(blacklist, txn[p].jti)

\* a revoke and a cleanup have both completed, the cleanup having taken
\* the clock at the very instant the token expires
C15_Witness ==
    \E p \in Procs, q \in Procs :
        /\ txn[p].op = "revoked"
        /\ txn[q].op = "cleaned"
        /\ txn[q].at = FromTimestamp(issued[txn[p].jti].exp)
        /\ now = txn[q].at
        /\ is_token_blacklisted(blacklist, txn[p].jti)

(***************************************************************************)
(* Integrity tools (app/services/role_hierarchy_service.py)                *)
(***************************************************************************)

\* the walk "visited = set(); current = role; while current: if current.id
\* in visited: report; visited.add(current.id); current = current.parent"
RECURSIVE VisitedWalk(_, _, _)
VisitedWalk(rs, current, visited) ==
    IF current = NoParent THEN FALSE
    ELSE IF current \in visited THEN TRUE
    ELSE VisitedWalk(rs, Parent(rs, current), visited \cup {current})

\* iterations of that loop
RECURSIVE VisitedWalkSteps(_, _, _)
VisitedWalkSteps(rs, current, visited) ==
    IF current = NoParent THEN 0
    ELSE IF current \in visited THEN 1
    ELSE 1 + VisitedWalkSteps(rs, Parent(rs, current), visited \cup {current})

\* validate_hierarchy_integrity without the check for circular references
validate_hierarchy_integrity_levels_only(rs) ==
    {[type |-> "incorrect_level", role_id |-> r] :
        r \in {x \in DOMAIN rs :
                 rs[x].level # IF Parent(rs, x) # NoParent
                               THEN rs[Parent(rs, x)].level + 1 ELSE 0}}

\* RoleHierarchyService.validate_hierarchy_integrity: the issues reported
validate_hierarchy_integrity(rs) ==
    {[type |-> "circular_reference", role_id |-> r] :
        r \in {x \in DOMAIN rs : VisitedWalk(rs, x, {})}}
    \cup
    {[type |-> "incorrect_level", role_id |-> r] :
        r \in {x \in DOMAIN rs :
                 rs[x].level # IF Parent(rs, x) # NoParent
                               THEN rs[Parent(rs, x)].level + 1 ELSE 0}}

\* fix_role_and_children: the role gets expected_level, every child
\* recursively one more.  depth is the recursion depth left; below a root
\* it is never exhausted.
RECURSIVE fix_role_and_children(_, _, _, _)
RECURSIVE FixChildren(_, _, _, _)
fix_role_and_children(rs, role, expected_level, depth) ==
    IF depth = 0 THEN rs
    ELSE FixChildren([rs EXCEPT ![role].level = expected_level],
                     Children(rs, role), expected_level + 1, depth - 1)

FixChildren(rs, cs, expected_level, depth) ==
    IF cs = {} THEN rs
    ELSE LET child == CHOOSE c \in cs : TRUE
         IN  FixChildren(fix_role_and_children(rs, child, expected_level, depth),
                         cs \ {child}, expected_level, depth)

\* the loop over root_roles with the given level for a root
RECURSIVE FixRoots(_, _, _)
FixRoots(rs, root_roles, root_level) ==
    IF root_roles = {} THEN rs
    ELSE LET root_role == CHOOSE r \in root_roles : TRUE
         IN  FixRoots(fix_role_and_children(rs, root_role, root_level,
                                            Cardinality(DOMAIN rs) + 1),
                      root_roles \ {root_role}, root_level)

\* fix_hierarchy_levels numbering the roots from 1
fix_hierarchy_levels_from_one(rs) ==
    FixRoots(rs, {r \in DOMAIN rs : rs[r].parent_id = NoParent}, 1)

\* fix_hierarchy_levels moving every role one level down
fix_hierarchy_levels_one_down(rs) ==
    [r \in DOMAIN rs |-> [rs[r] EXCEPT !.level = @ + 1]]

\* RoleHierarchyService.fix_hierarchy_levels: the table it commits; the
\* roots are the rows whose parent_id is NULL
fix_hierarchy_levels(rs) ==
    FixRoots(rs, {r \in DOMAIN rs : rs[r].parent_id = NoParent}, 0)

\* fix_hierarchy_levels as a call: returns fixed_count (role_id of the
\* record); previous is the count the call before returned if that call
\* was fix_hierarchy_levels too, -1 if not
FixLevels ==
    /\ roles' = fix_hierarchy_levels(roles)
    /\ nextRoleId' = nextRoleId
    /\ last' = Call("fix_levels",
                    Cardinality({r \in DOMAIN roles :
                                   roles[r].level # fix_hierarchy_levels(roles)[r].level}),
                    0, "", <<>>, "ok")
                  @@ [previous |-> IF last.op = "fix_levels" THEN last.role_id ELSE -1]
    /\ UNCHANGED <<authAll, txn>>

\* validate_hierarchy_integrity repairing the levels it finds wrong
ValidateIntegrityRepairing ==
    /\ last' = Call("validate_integrity",
                    Cardinality(validate_hierarchy_integrity(roles)), 0, "", <<>>,
                    IF validate_hierarchy_integrity(roles) = {}
                    THEN "no_issues" ELSE "issues")
    /\ roles' = fix_hierarchy_levels(roles)
    /\ nextRoleId' = nextRoleId
    /\ UNCHANGED <<authAll, txn>>

\* validate_hierarchy_integrity as a call: reports, changes nothing
ValidateIntegrity ==
    /\ last' = Call("validate_integrity",
                    Cardinality(validate_hierarchy_integrity(roles)), 0, "", <<>>,
                    IF validate_hierarchy_integrity(roles) = {}
                    THEN "no_issues" ELSE "issues")
    /\ UNCHANGED <<authAll, roleVars, txn>>

\* role graph operations and the integrity tools
NextFix ==
    \/ /\ nextRoleId <= MaxRoles
       /\ \E name \in NameInputs(nextRoleId), parent_id \in ParentInputs :
             create_role(name, parent_id)
    \/ \E role_id \in RoleIdInputs, parent_id \in ParentInputs :
          set_role_parent(role_id, parent_id)
    \/ FixLevels
    \/ ValidateIntegrity

SpecFix == Init /\ [][NextFix]_vars

\* C16: right after fix_levels, on a graph built by create_role and
\* set_parent, validate_integrity reports no incorrect level.
C16_FixThenValidateClean ==
    last.op = "fix_levels" =>
        {i \in validate_hierarchy_integrity(roles) : i.type = "incorrect_level"} = {}

\* fix_levels has run on a graph with a root, a child and a grandchild at
\* level 2, and validation of the result reports nothing
C16_Witness ==
    /\ last.op = "fix_levels"
    /\ \E g \in DOMAIN roles :
          /\ ParentPow(roles, g, 2) # NoParent
          /\ roles[g].level = 2
    /\ validate_hierarchy_integrity(roles) = {}

(***************************************************************************)
(* Roles granting a permission                                             *)
(* (app/services/role_hierarchy_service.py)                                *)
(***************************************************************************)

\* names of the permissions assigned to a role directly
DirectNames(rs, r) == {PermissionName(p) : p \in rs[r].permissions}

\* the loop of _find_permission_source: "while current: if permission_name
\* in the direct permissions of current: return current.name; current =
\* current.parent; return None"
RECURSIVE SourceWalk(_, _, _)
SourceWalk(rs, current, permission_name) ==
    IF current = NoParent THEN None
    ELSE IF permission_name \in DirectNames(rs, current) THEN rs[current].name
    ELSE SourceWalk(rs, Parent(rs, current), permission_name)

\* _find_permission_source answering with the parent whatever it holds
_find_permission_source_parent(rs, role, permission_name) ==
    IF Parent(rs, role) = NoParent THEN None ELSE rs[Parent(rs, role)].name

\* RoleHierarchyService._find_permission_source
_find_permission_source(rs, role, permission_name) ==
    SourceWalk(rs, Parent(rs, role), permission_name)

\* RoleHierarchyService.find_roles_with_permission
find_roles_with_permission(rs, permission_name) ==
    {[id |-> r,
      name |-> rs[r].name,
      level |-> rs[r].level,
      has_direct |-> permission_name \in DirectNames(rs, r),
      has_inherited |-> ~(permission_name \in DirectNames(rs, r)),
      inherited_from |-> IF permission_name \in DirectNames(rs, r) THEN None
                         ELSE _find_permission_source(rs, r, permission_name)] :
        r \in {x \in DOMAIN rs : has_permission(rs, x, permission_name)}}

\* permission names asked for
PermissionNameInputs == {PermissionName(p) : p \in PermissionIds}

\* find_roles_with_permission as a call
FindRoles(permission_name) ==
    /\ last' = Call("find_roles",
                    Cardinality(find_roles_with_permission(roles, permission_name)),
                    0, permission_name, <<>>, "ok")
    /\ UNCHANGED <<authAll, roleVars, txn>>

\* role graph operations, permission assignment and the search
NextFind ==
    \/ /\ nextRoleId <= MaxPermRoles
       /\ \E parent_id \in {NoParent} \cup DOMAIN roles :
             create_role(RoleNameFor(nextRoleId), parent_id)
    \/ \E role_id \in DOMAIN roles, parent_id \in {NoParent} \cup DOMAIN roles :
          set_role_parent(role_id, parent_id)
    \/ \E role_id \in DOMAIN roles, permission_ids \in AssignedLists :
          assign_permissions(role_id, permission_ids)
    \/ \E permission_name \in PermissionNameInputs : FindRoles(permission_name)

SpecFind == Init /\ [][NextFind]_vars

\* the nearest proper ancestor of r that holds the permission directly
NearestHolder(rs, r, permission_name) ==
    LET ks == {k \in 1..Cardinality(DOMAIN rs) :
                 /\ ParentPow(rs, r, k) # NoParent
                 /\ permission_name \in DirectNames(rs, ParentPow(rs, r, k))}
    IN  ParentPow(rs, r, CHOOSE k \in ks : \A j \in ks : k <= j)

\* C17: the search for a permission returns exactly the roles whose own or
\* ancestors' direct permissions contain it; an entry has has_direct iff
\* the role holds it directly, and otherwise has has_inherited and names
\* in inherited_from the nearest ancestor that holds it directly.
C17_FindRolesGranting ==
    last.op = "find_roles" =>
        LET found == find_roles_with_permission(roles, last.name)
        IN  /\ {e.id : e \in found} =
                  {r \in DOMAIN roles :
                     \E a \in {r} \cup Ancestors(roles, r) :
                        last.name \in DirectNames(roles, a)}
            /\ \A e \in found :
                  /\ e.has_direct <=> last.name \in DirectNames(roles, e.id)
                  /\ ~e.has_direct =>
                        /\ e.has_inherited
                        /\ e.inherited_from =
                              roles[NearestHolder(roles, e.id, last.name)].name

\* the search has returned a role that holds the permission only through
\* its grandparent, next to the grandparent that holds it directly
C17_Witness ==
    /\ last.op = "find_roles"
    /\ \E e \in find_roles_with_permission(roles, last.name) :
          /\ ~e.has_direct
          /\ e.has_inherited
          /\ last.name \notin DirectNames(roles, ParentPow(roles, e.id, 1))
          /\ ParentPow(roles, e.id, 2) # NoParent
          /\ e.inherited_from = roles[ParentPow(roles, e.id, 2)].name
          /\ \E d \in find_roles_with_permission(roles, last.name) :
                d.id = ParentPow(roles, e.id, 2) /\ d.has_direct

(***************************************************************************)
(* Logout and refresh (app/api/v1/auth.py, app/services/auth_service.py)   *)
(***************************************************************************)

\* refresh_access_token without the test of user.status
refresh_access_token_any_status(rt) ==
    LET payload == verify_token_with_blacklist(rt)
    IN  IF payload # "ok" THEN Outcome(401, payload, NoUser)
        ELSE IF rt.typ # "refresh" THEN Outcome(401, "wrong_type", NoUser)
        ELSE IF IntOf(rt.sub) \notin DOMAIN users THEN Outcome(401, "no_user", NoUser)
        ELSE Outcome(200, "ok", IntOf(rt.sub))

\* AuthService.refresh_access_token(db, refresh_token): None (the endpoint
\* answers 401) or a new access token for the subject
refresh_access_token(rt) ==
    LET payload == verify_token_with_blacklist(rt)
    IN  IF payload # "ok" THEN Outcome(401, payload, NoUser)
        ELSE IF rt.typ # "refresh" THEN Outcome(401, "wrong_type", NoUser)
        ELSE IF IntOf(rt.sub) \notin DOMAIN users THEN Outcome(401, "no_user", NoUser)
        ELSE IF users[IntOf(rt.sub)].status # "active"
             THEN Outcome(401, "not_active", NoUser)
        ELSE Outcome(200, "ok", IntOf(rt.sub))

\* the logout endpoint for a request with the bearer token t and the
\* refresh_token cookie rt: the get_current_user dependency, then
\* AuthService.blacklist_token for t and for rt.  An exception of either
\* call ends the request.
logout(t, rt) ==
    LET current_user == get_current_user(t)
        access == auth_blacklist_token(t)
        refresh == auth_blacklist_token(rt)
    IN  IF current_user.status # 200 THEN current_user
        ELSE IF access.status # 200 THEN access
        ELSE IF refresh.status # 200 THEN refresh
        ELSE Outcome(200, "ok", current_user.sub)

\* POST /logout; AuthService.blacklist_token raises before it reaches the
\* token_blacklist table, so no row is written
Logout(t, rt) ==
    /\ lastAuth' = AuthCall("logout", t, "access", {}, logout(t, rt))
                      @@ [cookie |-> rt.jti]
    /\ UNCHANGED <<roleAll, users, JWT_AUDIENCE, tokenVars, dead>>

\* POST /refresh: a new access token, with a uuid4 jti of its own, when
\* refresh_access_token accepts; minted is the jti of that token
RefreshAccessToken(rt) ==
    LET out == refresh_access_token(rt)
        jti == Cardinality(DOMAIN issued) + 1
    IN  /\ out.status = 200 => Cardinality(DOMAIN issued) < MaxSessionTokens
        /\ issued' = IF out.status = 200
                     THEN [j \in DOMAIN issued \cup {jti} |->
                             IF j = jti THEN create_access_token(rt.sub, jti)
                             ELSE issued[j]]
                     ELSE issued
        /\ lastAuth' = AuthCall("refresh_access_token", rt, "refresh", {}, out)
                          @@ [minted |-> IF out.status = 200 THEN jti ELSE 0]
        /\ dead' = Observe(rt, out)
        /\ UNCHANGED <<roleAll, users, JWT_AUDIENCE, now, blacklist>>

\* sessions: login, time, refresh and logout
NextLogout ==
    \/ \E subject \in Subjects, token_type \in TokenTypes : IssueToken(subject, token_type)
    \/ Tick
    \/ \E status \in UserStatuses : UpdateStatus(1, status)
    \/ \E rt \in Presented : RefreshAccessToken(rt)
    \/ \E t \in Presented, rt \in Presented : Logout(t, rt)
    \/ \E t \in Presented, token_type \in TokenTypes : VerifyToken(t, token_type)

SpecLogout == InitAuth /\ [][NextLogout]_vars

\* reasons for which the authentication of a request fails
AuthenticationFailureReasons ==
    {"bad_signature", "expired", "invalid_audience", "wrong_type", "revoked",
     "bad_subject", "no_user", "not_active"}

\* C18: a logout whose request carried a valid access token and a refresh
\* token cookie succeeds and leaves the jti of both in the revocation
\* store.
C18_LogoutRevokesBoth ==
    (/\ lastAuth.op = "logout"
     /\ lastAuth.reason \notin AuthenticationFailureReasons
     /\ ~lastAuth.forged
     /\ issued[lastAuth.cookie].typ = "refresh")
    => (/\ lastAuth.status = 200
        /\ is_token_blacklisted(blacklist, lastAuth.jti)
        /\ is_token_blacklisted(blacklist, lastAuth.cookie))

(***************************************************************************)
(* Errors of create_role                                                   *)
(***************************************************************************)

\* role graph operations, create_role also with the parent id 0
NextCreate ==
    \/ /\ nextRoleId <= MaxRoles
       /\ \E name \in NameInputs(nextRoleId), parent_id \in ParentInputs \cup {0} :
             create_role(name, parent_id)
    \/ \E role_id \in RoleIdInputs, parent_id \in ParentInputs :
          set_role_parent(role_id, parent_id)

SpecCreate == Init /\ [][NextCreate]_vars

\* C19: a create_role whose name is taken fails with DuplicateName, one
\* whose parent_id is given and names no role fails with ParentNotFound,
\* and neither adds a role; any other create_role stores the role at
\* level 0 without a parent, one below its parent otherwise.
C19_CreateRoleErrors ==
    [][last'.op = "create_role" =>
         LET taken == \E r \in DOMAIN roles : roles[r].name = last'.name
             absent == last'.parent_id # NoParent /\ last'.parent_id \notin DOMAIN roles
         IN  /\ taken /\ ~absent => last'.result = "DuplicateName"
             /\ absent /\ ~taken => last'.result = "ParentNotFound"
             /\ taken \/ absent =>
                   /\ last'.result \in {"DuplicateName", "ParentNotFound"}
                   /\ roles' = roles
             /\ ~taken /\ ~absent =>
                   /\ last'.result = "ok"
                   /\ DOMAIN roles' = DOMAIN roles \cup {last'.role_id}
                   /\ last'.role_id \notin DOMAIN roles
                   /\ roles'[last'.role_id].name = last'.name
                   /\ roles'[last'.role_id].parent_id = last'.parent_id
                   /\ roles'[last'.role_id].level =
                         IF last'.parent_id = NoParent THEN 0
                         ELSE roles[last'.parent_id].level + 1
    ]_vars

(***************************************************************************)
(* Errors of assign_permissions                                            *)
(***************************************************************************)

\* C20: an assignment that names a permission id that does not exist is
\* rejected and leaves the direct permissions of every role as they were.
C20_AssignAllOrNothing ==
    [][(/\ last'.op = "assign_permissions"
        /\ \E id \in Range(last'.perms) : id \notin PermissionIds)
       => (/\ last'.result # "ok"
           /\ \A r \in DOMAIN roles : roles'[r].permissions = roles[r].permissions
           /\ DOMAIN roles' = DOMAIN roles)
    ]_vars

\* an assignment naming the missing permission 3 next to the existing
\* permission 1 was rejected for a role that holds permission 2 only
C20_Witness ==
    /\ last.op = "assign_permissions"
    /\ last.result = "PermissionNotFound"
    /\ last.perms = <<1, 3>>
    /\ last.role_id \in DOMAIN roles
    /\ roles[last.role_id].permissions = {2}

(***************************************************************************)
(* Damaged tables.  Nothing in the schema of roles (app/models/role.py)    *)
(* keeps parent_id links acyclic or level equal to the depth: concurrent   *)
(* set_role_parent calls commit a cycle (SpecConc), and rows can be        *)
(* written outside the services.                                           *)
(***************************************************************************)

CorruptRoleIds == 1..MaxCorruptRoles

\* every roles table over these ids: any parent_id the foreign key admits,
\* any level; role 1 holds x:read and role 2 holds y:write directly
CorruptGraphs ==
    {[r \in CorruptRoleIds |->
        [name |-> RoleNameFor(r), parent_id |-> ps[r], level |-> ls[r],
         permissions |-> IF r \in PermissionIds THEN {r} ELSE {}]] :
        ps \in [CorruptRoleIds -> {NoParent} \cup CorruptRoleIds],
        ls \in [CorruptRoleIds -> 0..MaxCorruptLevel]}

InitCorrupt ==
    /\ roles \in CorruptGraphs
    /\ nextRoleId = MaxCorruptRoles + 1
    /\ last = NoCall
    /\ users = EmptyTable
    /\ now = 0
    /\ JWT_AUDIENCE = None
    /\ issued = EmptyTable
    /\ blacklist = EmptyTable
    /\ dead = [valid |-> {}, gone |-> {}]
    /\ lastAuth = NoAuthCall
    /\ txn = [p \in Procs |-> NoTxn]

\* the calls of get_all_permissions without the visited guard
RECURSIVE PermissionVisitsUnguarded(_, _, _, _)
PermissionVisitsUnguarded(rs, r, visited_roles, calls) ==
    IF calls = 0 THEN <<>>
    ELSE IF Parent(rs, r) # NoParent
         THEN <<r>> \o PermissionVisitsUnguarded(rs, Parent(rs, r),
                                                 visited_roles \cup {r}, calls - 1)
         ELSE <<r>>

\* the calls of get_all_permissions one call of it makes, in order: the
\* role of each call that got past the visited guard.  calls is the number
\* of calls left before the walk is cut off.
RECURSIVE PermissionVisits(_, _, _, _)
PermissionVisits(rs, r, visited_roles, calls) ==
    IF calls = 0 \/ r \in visited_roles THEN <<>>
    ELSE IF Parent(rs, r) # NoParent
         THEN <<r>> \o PermissionVisits(rs, Parent(rs, r),
                                        visited_roles \cup {r}, calls - 1)
         ELSE <<r>>

\* Role.get_all_permissions as a call: the permissions returned and the
\* roles visited
GetAllPermissions(role_id) ==
    /\ last' = Call("get_all_permissions", role_id, 0, "", <<>>, "ok")
                  @@ [permissions |-> get_all_permissions(roles, role_id, {}),
                      visits |-> PermissionVisits(roles, role_id, {},
                                                  2 * Cardinality(DOMAIN roles) + 2)]
    /\ UNCHANGED <<authAll, roleVars, txn>>

\* set_role_parent, the integrity tools and the permission walk on a
\* damaged table
NextCorrupt ==
    \/ \E role_id \in DOMAIN roles, parent_id \in {NoParent} \cup DOMAIN roles :
          set_role_parent(role_id, parent_id)
    \/ FixLevels
    \/ ValidateIntegrity
    \/ \E role_id \in DOMAIN roles : GetAllPermissions(role_id)

SpecCorrupt == InitCorrupt /\ [][NextCorrupt]_vars

\* C21: set_parent on a table that already holds a parent cycle returns:
\* it commits or raises RoleNotFound, ParentNotFound or CycleDetected, and
\* neither its ancestor walk nor its level cascade runs forever.
C21_SetParentTerminates ==
    last.op = "set_parent" =>
        last.result \in {"ok", "RoleNotFound", "ParentNotFound", "CycleDetected"}

\* C22: get_all_permissions returns on every roles table, cyclic ones
\* included, after visiting no role twice, with the direct permissions of
\* every role on the parent chain; has_permission, built on it, answers
\* for every permission name.
C22_WalkVisitsOnce ==
    last.op = "get_all_permissions" =>
        /\ \A i \in 1..Len(last.visits), j \in 1..Len(last.visits) :
              i # j => last.visits[i] # last.visits[j]
        /\ Len(last.visits) <= Cardinality(DOMAIN roles)
        /\ last.permissions =
              UNION {roles[a].permissions :
                       a \in {last.role_id} \cup Ancestors(roles, last.role_id)}
        /\ \A permission_name \in PermissionNameInputs :
              has_permission(roles, last.role_id, permission_name)
                 <=> permission_name \in {PermissionName(q) : q \in last.permissions}

\* the permissions of a role on a parent cycle through every role of the
\* table were computed: each role visited once, both permissions returned
C22_Witness ==
    /\ last.op = "get_all_permissions"
    /\ last.role_id \in Ancestors(roles, last.role_id)
    /\ Len(last.visits) = Cardinality(DOMAIN roles)
    /\ Len(last.visits) > 2
    /\ last.permissions = PermissionIds

(***************************************************************************)
(* Repeated refresh (app/services/auth_service.py)                         *)
(***************************************************************************)

\* login (the refresh token it sets as a cookie), time, revocation, status
\* changes and POST /refresh
NextRefresh ==
    \/ \E subject \in Subjects : IssueToken(subject, "refresh")
    \/ Tick
    \/ \E jti \in DOMAIN issued : Revoke(jti)
    \/ \E status \in UserStatuses : UpdateStatus(1, status)
    \/ DeleteUser(1)
    \/ \E rt \in Presented : RefreshAccessToken(rt)

\* the seeded database under the default settings (JWT_AUDIENCE unset)
InitRefresh == InitAuth /\ JWT_AUDIENCE = None

SpecRefresh == InitRefresh /\ [][NextRefresh]_vars

\* C23: every refresh with a genuine refresh token that is neither expired
\* nor revoked, of an existing active principal, succeeds and adds an
\* access token for the same subject under a jti no token had before,
\* however often the token was used already; a refresh with a genuine
\* refresh token that is expired or revoked, or whose principal is missing
\* or not active, fails and adds no token.
C23_RefreshNotSingleUse ==
    [][(/\ lastAuth'.op = "refresh_access_token"
        /\ ~lastAuth'.forged
        /\ issued[lastAuth'.jti].typ = "refresh")
       => LET rt == issued[lastAuth'.jti]
              usable == /\ ~(now > FromTimestamp(rt.exp))
                        /\ ~is_token_blacklisted(blacklist, rt.jti)
                        /\ PrincipalOf(rt) = "active"
          IN  IF usable
              THEN /\ lastAuth'.status = 200
                   /\ lastAuth'.minted \notin DOMAIN issued
                   /\ DOMAIN issued' = DOMAIN issued \cup {lastAuth'.minted}
                   /\ issued'[lastAuth'.minted].typ = "access"
                   /\ issued'[lastAuth'.minted].sub = rt.sub
                   /\ issued'[lastAuth'.minted].jti = lastAuth'.minted
                   /\ \A j \in DOMAIN issued : issued'[j] = issued[j]
              ELSE /\ lastAuth'.status = 401
                   /\ issued' = issued
    ]_vars

\* a refresh token that had already been refreshed with was accepted again
\* and minted a second access token
C23_Witness ==
    /\ lastAuth.op = "refresh_access_token"
    /\ lastAuth.status = 200
    /\ lastAuth.valid_before
    /\ \E j \in DOMAIN issued :
          /\ j # lastAuth.minted /\ j # lastAuth.jti
          /\ issued[j].typ = "access"
          /\ issued[lastAuth.minted].typ = "access"
          /\ issued[j].iat < issued[lastAuth.minted].iat

(***************************************************************************)
(* Repeated revocation (app/services/token_blacklist_service.py)           *)
(***************************************************************************)

\* jti values and expiry instants blacklist_token is called with
JtiInputs == 1..MaxTokens

ExpiryInputs == 0..MaxTime

\* TokenBlacklistService.blacklist_token(db, jti, expires_at) as a call:
\* True after the commit, False after the rollback of an INSERT the
\* primary key rejects; no exception leaves the call
BlacklistToken(jti, expires_at) ==
    /\ blacklist' = blacklist_insert(blacklist, jti, expires_at)
    /\ lastAuth' = AuthCall("blacklist_token", [jti |-> jti, sig |-> TRUE], None, {},
                            Outcome(200, IF is_token_blacklisted(blacklist, jti)
                                         THEN "False" ELSE "True", NoUser))
                      @@ [expires_at |-> expires_at]
    /\ UNCHANGED <<roleAll, users, JWT_AUDIENCE, now, issued, dead>>

\* revocations, time and cleanup
NextRevoke ==
    \/ \E jti \in JtiInputs, expires_at \in ExpiryInputs : BlacklistToken(jti, expires_at)
    \/ Tick
    \/ Cleanup

SpecRevoke == InitAuth /\ [][NextRevoke]_vars

\* C24: blacklist_token for a jti that is already stored returns without
\* an error and leaves the table as it was, the jti stored once under the
\* expiry of the first call and still revoked.
C24_RevokeIdempotent ==
    [][(/\ lastAuth'.op = "blacklist_token"
        /\ is_token_blacklisted(blacklist, lastAuth'.jti))
       => (/\ lastAuth'.status = 200
           /\ blacklist' = blacklist
           /\ blacklist'[lastAuth'.jti] = blacklist[lastAuth'.jti]
           /\ is_token_blacklisted(blacklist', lastAuth'.jti))
    ]_vars

\* a second revocation of a stored jti, under another expiry, returned
\* False and the first expiry is still the one stored
C24_Witness ==
    /\ lastAuth.op = "blacklist_token"
    /\ lastAuth.reason = "False"
    /\ is_token_blacklisted(blacklist, lastAuth.jti)
    /\ blacklist[lastAuth.jti] # lastAuth.expires_at

(***************************************************************************)
(* Properties of the integrity tools on damaged tables                     *)
(***************************************************************************)

\* the parent chain of r comes back to a role it has passed
ChainRevisits(rs, r) ==
    \E a \in {r} \cup Ancestors(rs, r) : a \in Ancestors(rs, a)

\* C25: validate_integrity reports an incorrect level for exactly the
\* roles whose stored level is not 0 without a parent or the parent's
\* stored level plus one otherwise, and a circular reference for exactly
\* the roles whose parent chain revisits a role; it reports nothing iff
\* the table has no cycle and consistent levels, and every one of its
\* walks ends after at most one iteration per role and one more.
C25_ValidateReportsExactly ==
    last.op = "validate_integrity" =>
        LET issues == validate_hierarchy_integrity(roles)
        IN  /\ {i.role_id : i \in {x \in issues : x.type = "incorrect_level"}} =
                  {r \in DOMAIN roles :
                     roles[r].level # IF roles[r].parent_id = NoParent THEN 0
                                      ELSE roles[roles[r].parent_id].level + 1}
            /\ {i.role_id : i \in {x \in issues : x.type = "circular_reference"}} =
                  {r \in DOMAIN roles : ChainRevisits(roles, r)}
            /\ \A i \in issues : i.type \in {"incorrect_level", "circular_reference"}
            /\ (issues = {}) <=> (NoCycle(roles) /\ LevelsConsistent(roles))
            /\ (last.result = "no_issues") <=> (issues = {})
            /\ last.role_id = Cardinality(issues)
            /\ \A r \in DOMAIN roles :
                  VisitedWalkSteps(roles, r, {}) <= Cardinality(DOMAIN roles) + 1

\* validation has run on a table with two roles on a parent cycle, a third
\* role below them, and levels that are consistent along every link but
\* one: it reported three circular references and one incorrect level
C25_Witness ==
    /\ last.op = "validate_integrity"
    /\ last.result = "issues"
    /\ last.role_id = 4
    /\ \E a \in DOMAIN roles, b \in DOMAIN roles, c \in DOMAIN roles :
          /\ a # b /\ b # c /\ a # c
          /\ roles[a].parent_id = b /\ roles[b].parent_id = a
          /\ roles[c].parent_id = b
          /\ roles[c].level = roles[b].level + 1
          /\ roles[a].level = roles[b].level + 1

\* C26: validate_integrity leaves the parent_id and level of every role as
\* they were, whatever it reports; of validate_integrity and fix_levels
\* only fix_levels changes a stored level, and neither changes a
\* parent_id.
C26_ValidateOnlyReports ==
    [][/\ last'.op = "validate_integrity" => roles' = roles
       /\ last'.op \in {"validate_integrity", "fix_levels"} =>
             /\ DOMAIN roles' = DOMAIN roles
             /\ \A r \in DOMAIN roles :
                   /\ roles'[r].parent_id = roles[r].parent_id
                   /\ roles'[r].level # roles[r].level => last'.op = "fix_levels"
    ]_vars

\* validation has reported a wrong level that fix_levels would change, and
\* the level is still stored
C26_Witness ==
    /\ last.op = "validate_integrity"
    /\ last.result = "issues"
    /\ \E r \in DOMAIN roles :
          /\ [type |-> "incorrect_level", role_id |-> r]
                \in validate_hierarchy_integrity(roles)
          /\ fix_hierarchy_levels(roles)[r].level # roles[r].level

\* C27: a fix_levels call made right after a fix_levels call, whatever
\* table the first one started from, changes no role and returns the
\* count 0.
C27_FixLevelsIdempotent ==
    [][(last.op = "fix_levels" /\ last'.op = "fix_levels")
       => (roles' = roles /\ last'.role_id = 0)
    ]_vars

\* fix_levels has run twice in a row on a table that holds a parent cycle
\* next to a tree: the first call changed two levels, the second none
C27_Witness ==
    /\ last.op = "fix_levels"
    /\ last.previous = 2
    /\ last.role_id = 0
    /\ \E r \in DOMAIN roles : r \in Ancestors(roles, r)

(***************************************************************************)
(* Extra claims (app/core/security.py)                                     *)
(***************************************************************************)

\* payload.update(extra): every key of extra is set, whether or not the
\* payload had it
payload_update(payload, extra) ==
    [k \in DOMAIN payload \cup DOMAIN extra |->
        IF k \in DOMAIN extra THEN extra[k] ELSE payload[k]]

\* create_access_token(subject, extra): _build_claims with "if extra:
\* payload.update(extra)" as its last step
create_access_token_extra(subject, jti, extra) ==
    payload_update(create_access_token(subject, jti), extra)

\* extra mappings a caller passes: none, an unrelated claim, and claims
\* under the names the issuer uses
ExtraInputs ==
    {EmptyTable, [role |-> "admin"], [typ |-> "refresh"], [type |-> "refresh"],
     [sub |-> "2"], [iss |-> "other"], [exp |-> MaxTime], [jti |-> 1]}

\* create_access_token(subject, extra) with a fresh uuid4 jti
IssueTokenExtra(subject, extra) ==
    /\ Cardinality(DOMAIN issued) < MaxTokens
    /\ LET jti == Cardinality(DOMAIN issued) + 1
           t == create_access_token_extra(subject, jti, extra)
       IN  /\ issued' = [j \in DOMAIN issued \cup {jti} |->
                            IF j = jti THEN t ELSE issued[j]]
           /\ lastAuth' = AuthCall("issue", t, "access", {},
                                   Outcome(200, "issued", NoUser))
    /\ UNCHANGED <<roleAll, users, JWT_AUDIENCE, now, blacklist, dead>>

\* access tokens issued with extra claims, time, and verification
NextExtra ==
    \/ \E subject \in Subjects, extra \in ExtraInputs : IssueTokenExtra(subject, extra)
    \/ Tick
    \/ \E t \in Presented, token_type \in TokenTypes : VerifyToken(t, token_type)

SpecExtra == InitRefresh /\ [][NextExtra]_vars

\* C28: whatever extra claims create_access_token is given, the token has
\* typ access, the subject asked for, the issuer of the settings, the jti
\* the issuer drew and the expiry the issuer computed, and verify_token
\* does not accept it as a refresh token.
C28_ExtraCannotOverride ==
    \A j \in DOMAIN issued :
        /\ issued[j].typ = "access"
        /\ issued[j].sub \in Subjects
        /\ issued[j].iss = "fastapi-auth-demo"
        /\ issued[j].jti = j
        /\ issued[j].exp = issued[j].iat + ACCESS_TOKEN_EXPIRE_MINUTES
        /\ verify_token(issued[j], "refresh").status # 200

(***************************************************************************)
(* Decisions over changing state (app/api/deps.py,                         *)
(* app/services/user_service.py, app/services/role_service.py)             *)
(***************************************************************************)

\* a request guarded by check_permissions; previous is the status the
\* request before it got if that was the same request (same token, same
\* required permissions), 0 if not
CheckPermissionsAgain(required, t) ==
    /\ lastAuth' = AuthCall("check_permissions", t, "access", required,
                            check_permissions(required, t))
                      @@ [previous |-> IF /\ lastAuth.op = "check_permissions"
                                          /\ lastAuth.jti = t.jti
                                          /\ lastAuth.forged = ~t.sig
                                          /\ lastAuth.required = required
                                       THEN lastAuth.status ELSE 0]
    /\ UNCHANGED <<roleAll, users, JWT_AUDIENCE, tokenVars, dead>>

\* one login (its access token), time, status changes, permission
\* assignment to the principal's role and to its parent, and guarded
\* requests
NextDecide ==
    \/ /\ DOMAIN issued = {}
       /\ \E subject \in Subjects : IssueToken(subject, "access")
    \/ Tick
    \/ \E status \in UserStatuses : UpdateStatus(1, status)
    \/ \E role_id \in DOMAIN roles, permission_ids \in AssignedLists :
          assign_permissions(role_id, permission_ids)
    \/ \E t \in Presented, required \in RequiredPermissionSets :
          CheckPermissionsAgain(required, t)

SpecDecide == InitRefresh /\ [][NextDecide]_vars

\* C29: a request guarded by check_permissions that presents a genuine,
\* still valid access token of an existing principal is allowed iff, in
\* the tables as they are when the request is made, the principal is
\* active and every required permission is assigned to its role or to a
\* role on the parent chain of its role, whatever the tables held when the
\* token was issued or when the token was last used.
C29_DecisionOnCurrentState ==
    [][(/\ lastAuth'.op = "check_permissions"
        /\ UNCHANGED <<roleAll, users, tokenVars>>
        /\ ~lastAuth'.forged
        /\ verify_token_with_blacklist(issued[lastAuth'.jti]) = "ok"
        /\ issued[lastAuth'.jti].typ = "access"
        /\ PrincipalOf(issued[lastAuth'.jti]) # "missing")
       => LET role_id == users[IntOf(issued[lastAuth'.jti].sub)].role_id
              held == UNION {DirectNames(roles, a) :
                               a \in {role_id} \cup Ancestors(roles, role_id)}
          IN  (lastAuth'.status = 200)
                 <=> (/\ PrincipalOf(issued[lastAuth'.jti]) = "active"
                      /\ lastAuth'.required \subseteq held)
    ]_vars

\* the same request with the same token was denied for a missing
\* permission and, the permission having since been assigned to the
\* parent of the principal's role only, is now allowed
C29_Witness ==
    /\ lastAuth.op = "check_permissions"
    /\ lastAuth.previous = 403
    /\ lastAuth.status = 200
    /\ lastAuth.required = {"y:write"}
    /\ last.op = "assign_permissions" /\ last.result = "ok"
    /\ roles[users[1].role_id].parent_id = last.role_id
    /\ roles[users[1].role_id].permissions = {}

(***************************************************************************)
(* Deleting a role (app/api/v1/roles.py, app/services/role_service.py,     *)
(* app/models/role.py, app/models/user.py)                                 *)
(***************************************************************************)

\* Role.users relationship: the users whose role_id names the role
RoleUsers(us, r) == {u \in DOMAIN us : us[u].role_id = r}

\* outcome of DELETE /roles/{role_id}: 404 for a missing role, 400 for a
\* role with users; db.delete(role) cascades over Role.children
\* (cascade="all, delete-orphan") to every descendant, and the flush sets
\* role_id of the users of a deleted descendant to NULL, which the NOT NULL
\* column rejects: the commit raises and nothing is deleted
DeleteResult(rs, us, role_id) ==
    IF role_id \notin DOMAIN rs THEN "RoleNotFound"
    ELSE IF RoleUsers(us, role_id) # {} THEN "RoleInUse"
    ELSE IF \E d \in DescendantsOrSelf(rs, role_id) : RoleUsers(us, d) # {}
         THEN "IntegrityError"
    ELSE "ok"

\* a delete that removes the one row and leaves the children to the
\* foreign key (ON DELETE SET NULL)
delete_rows_set_null(rs, role_id) ==
    [r \in DOMAIN rs \ {role_id} |->
        IF rs[r].parent_id = role_id
        THEN [rs[r] EXCEPT !.parent_id = NoParent] ELSE rs[r]]

\* rows left by RoleService.delete: the role and, through the cascade of
\* Role.children, all its descendants are deleted
delete_rows(rs, role_id) ==
    [r \in DOMAIN rs \ DescendantsOrSelf(rs, role_id) |-> rs[r]]

\* DELETE /roles/{role_id}; children is the number of child roles the
\* role had
delete_role(role_id) ==
    LET result == DeleteResult(roles, users, role_id)
    IN  /\ last' = Call("delete_role", role_id, 0, "", <<>>, result)
                      @@ [children |-> Cardinality(Children(roles, role_id))]
        /\ nextRoleId' = nextRoleId
        /\ UNCHANGED <<authAll, txn>>
        /\ IF result = "ok"
           THEN roles' = delete_rows(roles, role_id)
           ELSE roles' = roles

\* UserService.create with the role_id of an existing role
CreateUser(role_id) ==
    /\ Cardinality(DOMAIN users) < MaxUsers
    /\ role_id \in DOMAIN roles
    /\ users' = [u \in DOMAIN users \cup {Cardinality(DOMAIN users) + 1} |->
                    IF u \in DOMAIN users THEN users[u]
                    ELSE [role_id |-> role_id, status |-> "active"]]
    /\ UNCHANGED <<roleAll, JWT_AUDIENCE, tokenVars, dead, lastAuth>>

\* role graph operations, users, and deletion of roles
NextDelete ==
    \/ /\ nextRoleId <= MaxPermRoles
       /\ \E parent_id \in {NoParent} \cup DOMAIN roles :
             create_role(RoleNameFor(nextRoleId), parent_id)
    \/ \E role_id \in DOMAIN roles, parent_id \in {NoParent} \cup DOMAIN roles :
          set_role_parent(role_id, parent_id)
    \/ \E role_id \in DOMAIN roles : CreateUser(role_id)
    \/ \E role_id \in 1..MaxPermRoles : delete_role(role_id)

SpecDelete == Init /\ [][NextDelete]_vars

\* C30: after a delete_role that succeeded, no role names a missing role
\* as its parent, every role is at level 0 without a parent and one below
\* its parent otherwise, and every user's role exists.
C30_DeleteKeepsForest ==
    (last.op = "delete_role" /\ last.result = "ok") =>
        /\ \A r \in DOMAIN roles :
              roles[r].parent_id = NoParent \/ roles[r].parent_id \in DOMAIN roles
        /\ LevelsConsistent(roles)
        /\ \A u \in DOMAIN users : users[u].role_id \in DOMAIN roles

\* a role with a child role was deleted while another role, which a user
\* holds, stays
C30_Witness ==
    /\ last.op = "delete_role" /\ last.result = "ok"
    /\ last.children > 0
    /\ last.role_id \notin DOMAIN roles
    /\ \E u \in DOMAIN users : users[u].role_id \in DOMAIN roles

====
